---- MODULE Spec2Model ----
(***************************************************************************)
(* Leader election and key watch client (package leader) on top of an     *)
(* etcd v2 style store holding a single key.                              *)
(*                                                                         *)
(* Time is counted in clock units of 200ms: Second = 5 units.  The store   *)
(* keeps the remaining TTL of the lease, a voter's ticker keeps the time  *)
(* until its next tick; both count down when the clock advances.          *)
(***************************************************************************)
EXTENDS Integers, Sequences, FiniteSets, TLC

\* time.Second, in clock units
Second == 5

\* ---- bounds of the model ----
MaxRev == 4
MaxFaults == 1
MaxCloseCalls == 2
MaxWrites == 3
MaxErrors == 1

Voters == {1, 2}
\* the sessions (Clients); 0 stands for no session
Sessions == Voters
Values == {"A", "B"}
\* the values and terms AddVoter is called with (valid and invalid ones)
VoterValues == Values \cup {""}
Terms == {Second \div 2, Second}

VARIABLES
    store,        \* the key in the store: [present, value, index, ttl]
    rev,          \* the store's index (revision) counter
    lastWrite,    \* the last write the store applied: [by, kind, ttl]
    faults,       \* store requests that failed with a transport error so far
    closed,       \* closed[s]: Client.closed (0 or 1)
    closing,      \* closing[s]: Close calls between their CAS and close(closeC)
    closeCount,   \* closeCount[s]: how many times close(l.closeC) was executed
    returned,     \* returned[s]: Close calls that have returned nil
    calls,        \* calls[s]: Close calls started
    sess,         \* sess[i]: the session AddVoter(i, ..) is called on, 0: never called
    timed,        \* every store request completes within the clock unit it is issued in
    faultCap,     \* store requests fail only while faults is below this
    watched,      \* the voters' key is watched: hist keeps its events
    pc,           \* pc[i]: position of voter i
    vval,         \* vval[i]: the value voter i campaigns with
    term,         \* term[i]: the term voter i campaigns with
    respIndex,    \* respIndex[i]: resp.Node.ModifiedIndex of the last Get
    untilTick,    \* untilTick[i]: time until the ticker's next tick, 0: no ticker
    tickPending,  \* tickPending[i]: a tick is buffered in ticker.C
    attempts,     \* attempts[i]: iterations of voter i that tried to renew the lease
                  \* (a failed read of the stale lease included) since the key's last write
    stopped,      \* the first voter that returned: [who, age, peers, held]
                  \* (kept when requests are timed and the key is not watched)
    hist,         \* hist[n]: the value of the key's event at revision n
    histStart,    \* the oldest revision the store's event history still holds
    wpc,          \* position of the watcher's task
    resetFrom,    \* the place resetWatch was called from: init, cleared, storm
    re,           \* the watcher's re: [nil, value, index]
    watcher,      \* the watcher's store watch: [set, after]
    tries,        \* backoff.Tries
    unknowns,     \* unknown errors Next returned since the last value was sent
                  \* (counted when errCap lets Tries pass StormTries)
    errCap,       \* Next fails only while backoff.Tries is below this
    ctxCancelled, \* the context handed to watcher.Next is cancelled
    cbpc,         \* position of the callback adapter's task
    cbPrev,       \* the adapter's prev
    fnArgs,       \* the arguments of the callback's last invocation: [prev, new]
    cbVal,        \* the value the adapter received last
    snap0,        \* the watcher's initial snapshot: [got, value]
    firstEmit,    \* the first value sent on valuesC, "none" before it
    lastEmit,     \* the last value sent on valuesC: [value, index]
    wStartRev     \* the store's revision when AddWatch was called

voterVars == <<pc, vval, term, respIndex, untilTick, tickPending, attempts>>
closeVars == <<closed, closing, closeCount, returned, calls>>
confVars == <<sess, timed, faultCap, watched>>
watchVars == <<hist, histStart, wpc, resetFrom, re, watcher, tries, unknowns, errCap,
               ctxCancelled, cbpc, cbPrev, fnArgs, cbVal, snap0, firstEmit, lastEmit,
               wStartRev>>
watchTaskVars == <<histStart, wpc, resetFrom, re, watcher, tries, unknowns, errCap,
               ctxCancelled, cbpc, cbPrev, fnArgs, cbVal, snap0, firstEmit, lastEmit,
               wStartRev>>
storeVars == <<store, rev, lastWrite, faults>>
vars == <<store, rev, lastWrite, faults, closed, closing, closeCount, returned,
          calls, sess, timed, faultCap, watched, pc, vval, term, respIndex, untilTick,
          tickPending, attempts, stopped, hist, histStart, wpc, resetFrom, re, watcher,
          tries, unknowns, errCap, ctxCancelled, cbpc, cbPrev, fnArgs, cbVal, snap0, firstEmit,
          lastEmit, wStartRev>>

\* ---------------------------------------------------------------------
\* The store
\* ---------------------------------------------------------------------
Absent == [present |-> FALSE, value |-> "", index |-> 0, ttl |-> 0]
NoWrite == [by |-> 0, kind |-> "none", ttl |-> 0]
NoStop == [who |-> 0, age |-> 0, peers |-> {}, held |-> FALSE]
NilResponse == [nil |-> TRUE, value |-> "", index |-> 0]
NilWatcher == [set |-> FALSE, after |-> 0]
NoSnapshot == [got |-> FALSE, value |-> ""]
NoEmit == [value |-> "", index |-> 0]
NoCall == [prev |-> "none", new |-> "none"]

\* api.Set(key, value, opts): the store's decision
SetAllowed(st, opts) ==
    CASE opts.PrevExist = "PrevNoExist" -> ~st.present
      [] opts.PrevExist = "PrevIgnore" /\ opts.PrevValue # "" ->
            /\ st.present
            /\ st.value = opts.PrevValue
            /\ (opts.PrevIndex = 0 \/ st.index = opts.PrevIndex)
      [] OTHER -> TRUE

\* the key after a Set the store applies at revision r
SetResult(value, opts, r) ==
    [present |-> TRUE, value |-> value, index |-> r, ttl |-> opts.TTL]

\* ---------------------------------------------------------------------
\* elect: the options of its two writes and its renewal gate
\* ---------------------------------------------------------------------
CreateOptionsNoGuard(t) ==
    [TTL |-> t, PrevExist |-> "PrevIgnore", PrevValue |-> "", PrevIndex |-> 0]

CreateOptions(t) ==
    [TTL |-> t, PrevExist |-> "PrevNoExist", PrevValue |-> "", PrevIndex |-> 0]

RenewOptionsNoGuard(value, t, index) ==
    [TTL |-> t, PrevExist |-> "PrevIgnore", PrevValue |-> "", PrevIndex |-> 0]

RenewOptions(value, t, index) ==
    [TTL |-> t, PrevExist |-> "PrevIgnore", PrevValue |-> value,
     PrevIndex |-> index]

\* a gate that is never open
LeaseFreshAlways(remaining, t) == TRUE

\* a gate that lets the lease run down to a quarter of the term
LeaseFreshQuarter(remaining, t) == 4 * remaining > t

\* resp.Node.Expiration.Sub(l.clock.UtcNow()) > time.Duration(term/2)
LeaseFresh(remaining, t) == 2 * remaining > t

\* a ticker that ticks once per term
PeriodWholeTerm(t) == t

\* term / 5, the ticker's period
Period(t) == t \div 5

\* ---------------------------------------------------------------------
\* Initial state
\* ---------------------------------------------------------------------
InitState ==
    /\ store = Absent
    /\ rev = 0
    /\ lastWrite = NoWrite
    /\ closed = [s \in Sessions |-> 0]
    /\ closing = [s \in Sessions |-> 0]
    /\ closeCount = [s \in Sessions |-> 0]
    /\ returned = [s \in Sessions |-> 0]
    /\ calls = [s \in Sessions |-> 0]
    /\ pc = [i \in Voters |-> "none"]
    /\ vval = [i \in Voters |-> ""]
    /\ term = [i \in Voters |-> 0]
    /\ respIndex = [i \in Voters |-> 0]
    /\ untilTick = [i \in Voters |-> 0]
    /\ tickPending = [i \in Voters |-> FALSE]
    /\ attempts = [i \in Voters |-> 0]
    /\ stopped = NoStop
    /\ hist = <<>>
    /\ histStart = 1
    /\ wpc = "none"
    /\ resetFrom = "init"
    /\ re = NilResponse
    /\ watcher = NilWatcher
    /\ tries = 0
    /\ unknowns = 0
    /\ ctxCancelled = FALSE
    /\ cbpc = "none"
    /\ cbPrev = ""
    /\ fnArgs = NoCall
    /\ cbVal = ""
    /\ snap0 = NoSnapshot
    /\ firstEmit = "none"
    /\ lastEmit = NoEmit
    /\ wStartRev = 0

\* all voters are added to session 1; store requests may fail and be slow
Init ==
    /\ InitState
    /\ faults = 0
    /\ sess = [i \in Voters |-> 1]
    /\ timed = FALSE
    /\ watched = FALSE
    /\ faultCap = MaxFaults
    /\ errCap = 0

\* the sessions that are in use
ActiveSessions == {1} \cup ({sess[i] : i \in Voters} \ {0})

\* ---------------------------------------------------------------------
\* Client.Close
\* ---------------------------------------------------------------------
\* Close without the compare-and-swap: every call goes on to close(closeC)
CloseNoCAS(s) ==
    /\ calls[s] < MaxCloseCalls
    /\ calls' = [calls EXCEPT ![s] = @ + 1]
    /\ closed' = [closed EXCEPT ![s] = 1]
    /\ closing' = [closing EXCEPT ![s] = @ + 1]
    /\ UNCHANGED <<returned, closeCount, storeVars, voterVars, confVars, stopped, watchVars>>

\* atomic.CompareAndSwapUint32(&l.closed, 0, 1); the loser returns nil
CloseCAS(s) ==
    /\ calls[s] < MaxCloseCalls
    /\ calls' = [calls EXCEPT ![s] = @ + 1]
    /\ IF closed[s] = 0
       THEN /\ closed' = [closed EXCEPT ![s] = 1]
            /\ closing' = [closing EXCEPT ![s] = @ + 1]
            /\ UNCHANGED returned
       ELSE /\ returned' = [returned EXCEPT ![s] = @ + 1]
            /\ UNCHANGED <<closed, closing>>
    /\ UNCHANGED <<closeCount, storeVars, voterVars, confVars, stopped, watchVars>>

\* close(l.closeC); return nil
CloseChan(s) ==
    /\ closing[s] > 0
    /\ closing' = [closing EXCEPT ![s] = @ - 1]
    /\ closeCount' = [closeCount EXCEPT ![s] = @ + 1]
    /\ returned' = [returned EXCEPT ![s] = @ + 1]
    /\ UNCHANGED <<closed, calls, storeVars, voterVars, confVars, stopped, watchVars>>

\* a closeC that is always ready
CloseSignalledAlways(s) == TRUE

\* <-l.closeC can proceed
CloseSignalled(s) == closeCount[s] > 0

\* ---------------------------------------------------------------------
\* Client.AddVoter and the voter's task
\* ---------------------------------------------------------------------
\* AddVoter without its two checks: every call spawns the task
AddVoterUnchecked(i, value, t) ==
    /\ pc[i] = "none"
    /\ sess[i] # 0
    /\ pc' = [pc EXCEPT ![i] = "elect_get"]
    /\ vval' = [vval EXCEPT ![i] = value]
    /\ term' = [term EXCEPT ![i] = t]
    /\ UNCHANGED <<respIndex, untilTick, tickPending, attempts, storeVars,
                   closeVars, confVars, stopped, watchVars>>

AddVoter(i, value, t) ==
    /\ pc[i] = "none"
    /\ sess[i] # 0
    /\ IF value = "" \/ t < Second
       THEN /\ pc' = [pc EXCEPT ![i] = "rejected"]
            /\ UNCHANGED <<vval, term>>
       ELSE /\ pc' = [pc EXCEPT ![i] = "elect_get"]
            /\ vval' = [vval EXCEPT ![i] = value]
            /\ term' = [term EXCEPT ![i] = t]
    /\ UNCHANGED <<respIndex, untilTick, tickPending, attempts, storeVars,
                   closeVars, confVars, stopped, watchVars>>

\* a voter that calls elect once and never starts its ticker
ElectReturnsOnce(i) ==
    /\ pc' = [pc EXCEPT ![i] = "select"]
    /\ UNCHANGED untilTick

\* elect returns to the voter's task: the first call is followed by
\* time.NewTicker(term / 5), every call by the select
ElectReturns(i) ==
    /\ pc' = [pc EXCEPT ![i] = "select"]
    /\ untilTick' = [untilTick EXCEPT ![i] =
                        IF @ = 0 THEN Period(term[i]) ELSE @]

\* the key holds voter i's value and the renewal gate is open
DueForRenewal(i) ==
    /\ store.present
    /\ store.value = vval[i]
    /\ ~LeaseFresh(store.ttl, term[i])

\* resp, err := api.Get(key) and the decisions taken on it
ElectGet(i) ==
    /\ pc[i] = "elect_get"
    /\ \/ /\ ~store.present
          /\ pc' = [pc EXCEPT ![i] = "elect_create"]
          /\ UNCHANGED <<untilTick, respIndex, faults, attempts>>
       \/ /\ store.present
          /\ store.value # vval[i]
          /\ ElectReturns(i)
          /\ UNCHANGED <<respIndex, faults, attempts>>
       \/ /\ store.present
          /\ store.value = vval[i]
          /\ LeaseFresh(store.ttl, term[i])
          /\ ElectReturns(i)
          /\ UNCHANGED <<respIndex, faults, attempts>>
       \/ /\ store.present
          /\ store.value = vval[i]
          /\ ~LeaseFresh(store.ttl, term[i])
          /\ pc' = [pc EXCEPT ![i] = "elect_renew"]
          /\ respIndex' = [respIndex EXCEPT ![i] = store.index]
          /\ UNCHANGED <<untilTick, faults, attempts>>
       \/ /\ faults < faultCap
          /\ faults' = faults + 1
          /\ ElectReturns(i)
          /\ attempts' = [attempts EXCEPT ![i] =
                             IF timed /\ DueForRenewal(i) THEN @ + 1 ELSE @]
          /\ UNCHANGED respIndex
    /\ UNCHANGED <<store, rev, lastWrite, vval, term, tickPending,
                   closeVars, confVars, stopped, watchVars>>

\* api.Set(key, value, opts) issued by voter i; attempts counts the
\* iterations that tried to renew (when requests are timed)
ElectSet(i, kind, opts) ==
    /\ \/ /\ SetAllowed(store, opts)
          /\ rev < MaxRev
          /\ rev' = rev + 1
          /\ store' = SetResult(vval[i], opts, rev + 1)
          /\ lastWrite' = [by |-> i, kind |-> kind, ttl |-> opts.TTL]
          /\ attempts' = [j \in Voters |-> 0]
          /\ hist' = IF watched THEN Append(hist, vval[i]) ELSE hist
          /\ UNCHANGED faults
       \/ /\ ~SetAllowed(store, opts)
          /\ attempts' = [attempts EXCEPT ![i] = IF timed /\ kind = "renew" THEN @ + 1 ELSE @]
          /\ UNCHANGED <<store, rev, lastWrite, faults, hist>>
       \/ /\ faults < faultCap \/ rev >= MaxRev
          /\ faults' = IF faults < faultCap THEN faults + 1 ELSE faults
          /\ attempts' = [attempts EXCEPT ![i] = IF timed /\ kind = "renew" THEN @ + 1 ELSE @]
          /\ UNCHANGED <<store, rev, lastWrite, hist>>
    /\ ElectReturns(i)
    /\ UNCHANGED <<vval, term, respIndex, tickPending, closeVars, confVars,
                   stopped, watchTaskVars>>

ElectCreate(i) ==
    /\ pc[i] = "elect_create"
    /\ ElectSet(i, "create", CreateOptions(term[i]))

ElectRenew(i) ==
    /\ pc[i] = "elect_renew"
    /\ ElectSet(i, "renew", RenewOptions(vval[i], term[i], respIndex[i]))

\* select: case <-ticker.C
VoterTick(i) ==
    /\ pc[i] = "select"
    /\ tickPending[i]
    /\ tickPending' = [tickPending EXCEPT ![i] = FALSE]
    /\ pc' = [pc EXCEPT ![i] = "elect_get"]
    /\ UNCHANGED <<vval, term, respIndex, untilTick, attempts, storeVars,
                   closeVars, confVars, stopped, watchVars>>

\* the voters that are in their loop with a running ticker
Campaigning == {j \in Voters : pc[j] \in {"select", "elect_get",
                   "elect_create", "elect_renew"} /\ untilTick[j] > 0}

\* select: case <-l.closeC: return (defer ticker.Stop())
VoterClose(i) ==
    /\ pc[i] = "select"
    /\ CloseSignalled(sess[i])
    /\ pc' = [pc EXCEPT ![i] = "done"]
    /\ untilTick' = [untilTick EXCEPT ![i] = 0]
    /\ tickPending' = [tickPending EXCEPT ![i] = FALSE]
    /\ stopped' = IF timed /\ ~watched /\ stopped.who = 0
                  THEN [who |-> i, age |-> 0, peers |-> Campaigning \ {i},
                        held |-> store.present /\ store.value = vval[i]]
                  ELSE stopped
    /\ UNCHANGED <<vval, term, respIndex, attempts, storeVars, closeVars,
                   confVars, watchVars>>

\* ---------------------------------------------------------------------
\* The clock and the lease's expiry
\* ---------------------------------------------------------------------
\* a voter has a step to take now
Busy(i) ==
    \/ pc[i] \in {"elect_get", "elect_create", "elect_renew"}
    \/ pc[i] = "select" /\ tickPending[i]

MaxAge == 2 * Second

\* the clock advances by one unit
Tick ==
    /\ ~(store.present /\ store.ttl = 0)
    /\ timed => \A i \in Voters : ~Busy(i)
    /\ store' = IF store.present THEN [store EXCEPT !.ttl = @ - 1] ELSE store
    /\ untilTick' = [i \in Voters |->
                        IF untilTick[i] = 0 THEN 0
                        ELSE IF untilTick[i] = 1 THEN Period(term[i])
                        ELSE untilTick[i] - 1]
    /\ tickPending' = [i \in Voters |-> tickPending[i] \/ untilTick[i] = 1]
    /\ stopped' = IF stopped.who # 0 /\ stopped.age < MaxAge
                  THEN [stopped EXCEPT !.age = @ + 1] ELSE stopped
    /\ UNCHANGED <<rev, lastWrite, faults, pc, vval, term, respIndex, attempts,
                   closeVars, confVars, watchVars>>

\* the store deletes the key when its TTL has elapsed: the event's node
\* carries no value
Expire ==
    /\ store.present
    /\ store.ttl = 0
    /\ store' = Absent
    /\ rev' = rev + 1
    /\ hist' = IF watched THEN Append(hist, "") ELSE hist
    /\ UNCHANGED <<lastWrite, faults, voterVars, closeVars, confVars, stopped,
                   watchTaskVars>>

\* ---------------------------------------------------------------------
\* The key's other writers and the store's event history
\* ---------------------------------------------------------------------
\* the values other clients write to the key
WrittenValues == Values \cup {""}

\* another client sets the key (without a TTL)
ExternalSet(v) ==
    /\ rev < MaxWrites
    /\ rev' = rev + 1
    /\ store' = [present |-> TRUE, value |-> v, index |-> rev + 1, ttl |-> 0]
    /\ hist' = Append(hist, v)
    /\ UNCHANGED <<lastWrite, faults, closeVars, voterVars, confVars, stopped,
                   histStart, wpc, resetFrom, re, watcher, tries, unknowns, errCap,
                   ctxCancelled, cbpc, cbPrev, fnArgs, cbVal, snap0, firstEmit,
                   lastEmit, wStartRev>>

\* another client deletes the key: the event's node carries no value
ExternalDelete ==
    /\ rev < MaxWrites
    /\ store.present
    /\ rev' = rev + 1
    /\ store' = Absent
    /\ hist' = Append(hist, "")
    /\ UNCHANGED <<lastWrite, faults, closeVars, voterVars, confVars, stopped,
                   histStart, wpc, resetFrom, re, watcher, tries, unknowns, errCap,
                   ctxCancelled, cbpc, cbPrev, fnArgs, cbVal, snap0, firstEmit,
                   lastEmit, wStartRev>>

\* the store drops the events it holds from its history
Compact ==
    /\ histStart <= rev
    /\ histStart' = rev + 1
    /\ UNCHANGED <<storeVars, closeVars, voterVars, confVars, stopped, hist,
                   wpc, resetFrom, re, watcher, tries, unknowns, errCap, ctxCancelled,
                   cbpc, cbPrev, fnArgs, cbVal, snap0, firstEmit, lastEmit, wStartRev>>

\* ---------------------------------------------------------------------
\* Client.AddWatchCallback, Client.AddWatch, Client.getFirstValue
\* ---------------------------------------------------------------------
\* if backoff.Tries > 10 { resetWatch() }
StormTries == 10

\* the watcher's task panicked: the process is gone
Crashed == wpc = "panic"

\* AddWatchCallback spawns the adapter, whose AddWatch spawns the watcher,
\* which calls resetWatch
AddWatchCallback ==
    /\ wpc = "none"
    /\ wpc' = "probe"
    /\ resetFrom' = "init"
    /\ cbpc' = "recv"
    /\ wStartRev' = rev
    /\ UNCHANGED <<storeVars, closeVars, voterVars, confVars, stopped, hist,
                   histStart, re, watcher, tries, unknowns, errCap, ctxCancelled, cbPrev, fnArgs,
                   cbVal, snap0, firstEmit, lastEmit>>

\* AddWatch called by a client that receives from valuesC itself, whenever
\* a value is sent, and does not look at the session's closeC
AddWatch ==
    /\ wpc = "none"
    /\ wpc' = "probe"
    /\ resetFrom' = "init"
    /\ cbpc' = "plain"
    /\ wStartRev' = rev
    /\ UNCHANGED <<storeVars, closeVars, voterVars, confVars, stopped, hist,
                   histStart, re, watcher, tries, unknowns, errCap, ctxCancelled, cbPrev, fnArgs,
                   cbVal, snap0, firstEmit, lastEmit>>

\* a watcher that calls Next after every resetWatch
AfterResetAlwaysNext(from) == "next"

\* where the watcher goes on after resetWatch got the snapshot:
\* the first call and the call after repeated unknown errors are followed
\* by watcher.Next, the call after EventIndexCleared by the select
AfterReset(from) == IF from = "cleared" THEN "send" ELSE "next"

\* getFirstValue: re, err := api.Get(key); resetWatch goes on with the
\* response: watcher = api.Watcher(key, AfterIndex: re.Node.ModifiedIndex)
Probe ==
    /\ wpc = "probe"
    /\ \/ /\ store.present
          /\ re' = [nil |-> FALSE, value |-> store.value, index |-> store.index]
          /\ watcher' = [set |-> TRUE, after |-> store.index]
          /\ wpc' = AfterReset(resetFrom)
          /\ snap0' = IF resetFrom = "init"
                      THEN [got |-> TRUE, value |-> store.value] ELSE snap0
          /\ UNCHANGED faults
       \/ /\ ~store.present
          /\ wpc' = "probe_wait"
          /\ UNCHANGED <<re, watcher, snap0, faults>>
       \/ /\ faults < faultCap
          /\ faults' = faults + 1
          /\ wpc' = "probe_wait"
          /\ UNCHANGED <<re, watcher, snap0>>
    /\ UNCHANGED <<store, rev, lastWrite, closeVars, voterVars, confVars,
                   stopped, hist, histStart, resetFrom, tries, unknowns, errCap,
                   ctxCancelled, cbpc, cbPrev, fnArgs, cbVal, firstEmit, lastEmit,
                   wStartRev>>

\* getFirstValue: select case <-tick.C
ProbeTick ==
    /\ wpc = "probe_wait"
    /\ wpc' = "probe"
    /\ UNCHANGED <<storeVars, closeVars, voterVars, confVars, stopped, hist,
                   histStart, resetFrom, re, watcher, tries, unknowns, errCap,
                   ctxCancelled, cbpc, cbPrev, fnArgs, cbVal, snap0, firstEmit,
                   lastEmit, wStartRev>>

\* where the watcher goes on after getFirstValue returned (nil, nil):
\* resetWatch returns a nil error with re = nil.  The first call is followed
\* by watcher.Next on the nil watcher and the call after EventIndexCleared by
\* the select's re.Node.Value on the nil re: both panic.  The call after
\* repeated unknown errors is followed by watcher.Next on the old watcher.
AfterResetClosed(from) == IF from = "storm" THEN "next" ELSE "panic"

\* getFirstValue: select case <-l.closeC: return nil, nil
ProbeClose ==
    /\ wpc = "probe_wait"
    /\ closeCount[1] > 0
    /\ re' = NilResponse
    /\ wpc' = AfterResetClosed(resetFrom)
    /\ UNCHANGED <<storeVars, closeVars, voterVars, confVars, stopped, hist,
                   histStart, resetFrom, watcher, tries, unknowns, errCap, ctxCancelled,
                   cbpc, cbPrev, fnArgs, cbVal, snap0, firstEmit, lastEmit, wStartRev>>

\* go func() { <-l.closeC; closer() }(), spawned after the first resetWatch
CtxCancel ==
    /\ snap0.got
    /\ ~Crashed
    /\ closeCount[1] > 0
    /\ ~ctxCancelled
    /\ ctxCancelled' = TRUE
    /\ UNCHANGED <<storeVars, closeVars, voterVars, confVars, stopped, hist,
                   histStart, wpc, resetFrom, re, watcher, tries, unknowns, errCap, cbpc,
                   cbPrev, fnArgs, cbVal, snap0, firstEmit, lastEmit, wStartRev>>

\* a watch that goes back to the revision before the one it delivered
WaitIndexReplay == IF watcher.after > 1 THEN watcher.after - 1 ELSE watcher.after + 1

\* the revision watcher.Next waits for
WaitIndex == watcher.after + 1

\* a value read from the store watch is sent unless it is empty
SkipsValue(v) == v = ""

\* re, err = watcher.Next(ctx) and the handling of its result, up to the
\* select; backoff.Delay() counts every error, the sleep is part of the step
WatcherNext ==
    /\ wpc = "next"
    /\ \/ \* a response
          /\ ~ctxCancelled
          /\ WaitIndex >= histStart
          /\ WaitIndex <= Len(hist)
          /\ re' = [nil |-> FALSE, value |-> hist[WaitIndex], index |-> WaitIndex]
          /\ watcher' = [watcher EXCEPT !.after = WaitIndex]
          /\ IF SkipsValue(hist[WaitIndex])
             THEN UNCHANGED <<wpc, tries>>
             ELSE wpc' = "send" /\ tries' = 0
          /\ UNCHANGED <<resetFrom, unknowns>>
       \/ \* context.Canceled, or a ClusterError that wraps it
          /\ ctxCancelled
          /\ tries' = tries + 1
          /\ wpc' = "done"
          /\ UNCHANGED <<re, watcher, resetFrom, unknowns>>
       \/ \* a ClusterError
          /\ ~ctxCancelled
          /\ tries < errCap
          /\ tries' = tries + 1
          /\ UNCHANGED <<wpc, re, watcher, resetFrom, unknowns>>
       \/ \* client.Error with ErrorCodeEventIndexCleared: resetWatch
          /\ ~ctxCancelled
          /\ WaitIndex < histStart
          /\ tries' = tries + 1
          /\ wpc' = "probe"
          /\ resetFrom' = "cleared"
          /\ UNCHANGED <<re, watcher, unknowns>>
       \/ \* any other error: resetWatch once backoff.Tries > 10
          /\ ~ctxCancelled
          /\ tries < errCap
          /\ tries' = tries + 1
          /\ IF tries + 1 > StormTries
             THEN wpc' = "probe" /\ resetFrom' = "storm"
             ELSE UNCHANGED <<wpc, resetFrom>>
          /\ unknowns' = IF errCap > StormTries THEN unknowns + 1 ELSE unknowns
          /\ UNCHANGED <<re, watcher>>
    /\ UNCHANGED <<storeVars, closeVars, voterVars, confVars, stopped, hist,
                   histStart, errCap, ctxCancelled, cbpc, cbPrev, fnArgs, cbVal, snap0,
                   firstEmit, lastEmit, wStartRev>>

\* valuesC is unbuffered: a send needs a receiver.  closing closeC wakes
\* every select blocked on it, and a select entered later takes a case that
\* is ready at once, so the watcher's select and the adapter's select do
\* not meet on valuesC once closeC is closed; a plain receiver stays ready.
ReceiverReady ==
    \/ cbpc = "plain"
    \/ cbpc = "recv" /\ closeCount[1] = 0

\* select case valuesC <- re.Node.Value, received by the adapter's
\* select case val := <-valuesC or by the client
WatcherSend ==
    /\ wpc = "send"
    /\ ReceiverReady
    /\ wpc' = "next"
    /\ cbpc' = IF cbpc = "recv" THEN "call" ELSE cbpc
    /\ cbVal' = re.value
    /\ firstEmit' = IF firstEmit = "none" THEN re.value ELSE firstEmit
    /\ lastEmit' = [value |-> re.value, index |-> re.index]
    /\ unknowns' = 0
    /\ UNCHANGED <<storeVars, closeVars, voterVars, confVars, stopped, hist,
                   histStart, resetFrom, re, watcher, tries, errCap,
                   ctxCancelled, cbPrev, fnArgs, snap0, wStartRev>>

\* select case <-l.closeC: return
WatcherClose ==
    /\ wpc = "send"
    /\ closeCount[1] > 0
    /\ wpc' = "done"
    /\ UNCHANGED <<storeVars, closeVars, voterVars, confVars, stopped, hist,
                   histStart, resetFrom, re, watcher, tries, unknowns, errCap,
                   ctxCancelled, cbpc, cbPrev, fnArgs, cbVal, snap0, firstEmit,
                   lastEmit, wStartRev>>

\* an adapter that never updates prev
AdapterCallKeepsPrev ==
    /\ cbpc = "call"
    /\ ~Crashed
    /\ fnArgs' = [prev |-> cbPrev, new |-> cbVal]
    /\ cbpc' = "recv"
    /\ UNCHANGED <<storeVars, closeVars, voterVars, confVars, stopped, hist,
                   histStart, wpc, resetFrom, re, watcher, tries, unknowns, errCap,
                   ctxCancelled, cbPrev, cbVal, snap0, firstEmit, lastEmit,
                   wStartRev>>

\* the adapter: fn(key, prev, val); prev = val
AdapterCall ==
    /\ cbpc = "call"
    /\ ~Crashed
    /\ fnArgs' = [prev |-> cbPrev, new |-> cbVal]
    /\ cbPrev' = cbVal
    /\ cbpc' = "recv"
    /\ UNCHANGED <<storeVars, closeVars, voterVars, confVars, stopped, hist,
                   histStart, wpc, resetFrom, re, watcher, tries, unknowns, errCap,
                   ctxCancelled, cbVal, snap0, firstEmit, lastEmit, wStartRev>>

\* the adapter: select case <-l.closeC: return
AdapterClose ==
    /\ cbpc = "recv"
    /\ ~Crashed
    /\ closeCount[1] > 0
    /\ cbpc' = "done"
    /\ UNCHANGED <<storeVars, closeVars, voterVars, confVars, stopped, hist,
                   histStart, wpc, resetFrom, re, watcher, tries, unknowns, errCap,
                   ctxCancelled, cbPrev, fnArgs, cbVal, snap0, firstEmit, lastEmit,
                   wStartRev>>

\* ---------------------------------------------------------------------
\* Specification of the election
\* ---------------------------------------------------------------------
VoterStep(i) ==
    \/ ElectGet(i)
    \/ ElectCreate(i)
    \/ ElectRenew(i)
    \/ VoterTick(i)
    \/ VoterClose(i)

Next ==
    \/ \E s \in ActiveSessions : CloseCAS(s) \/ CloseChan(s)
    \/ \E i \in Voters, v \in VoterValues, t \in Terms : AddVoter(i, v, t)
    \/ \E i \in Voters : VoterStep(i)
    \/ Tick
    \/ Expire

Spec == Init /\ [][Next]_vars

\* one voter, added to session 1
InitSingle ==
    /\ InitState
    /\ faults = 0
    /\ sess = [i \in Voters |-> IF i = 1 THEN 1 ELSE 0]
    /\ timed = FALSE
    /\ watched = FALSE
    /\ faultCap = MaxFaults
    /\ errCap = 0

\* the tasks are scheduled, the clock advances and the store expires leases
Fairness ==
    /\ WF_vars(Tick)
    /\ WF_vars(Expire)
    /\ \A i \in Voters : WF_vars(VoterStep(i))

FairSpecSingle == InitSingle /\ [][Next]_vars /\ Fairness

\* every voter in a session of its own, a healthy store that answers at once
InitTimed ==
    /\ InitState
    /\ faults = MaxFaults
    /\ sess = [i \in Voters |-> i]
    /\ timed = TRUE
    /\ watched = FALSE
    /\ faultCap = MaxFaults
    /\ errCap = 0

SpecTimed == InitTimed /\ [][Next]_vars

\* one voter, a store that answers at once and may fail MaxFaults + 2 times
InitLease ==
    /\ InitState
    /\ faults = 0
    /\ sess = [i \in Voters |-> IF i = 1 THEN 1 ELSE 0]
    /\ timed = TRUE
    /\ watched = FALSE
    /\ faultCap = MaxFaults + 2
    /\ errCap = 0

SpecLease == InitLease /\ [][Next]_vars

\* two voters in one session, a store that answers at once and may fail
InitElect ==
    /\ InitState
    /\ faults = 0
    /\ sess = [i \in Voters |-> 1]
    /\ timed = TRUE
    /\ watched = FALSE
    /\ faultCap = MaxFaults
    /\ errCap = 0

SpecElect == InitElect /\ [][Next]_vars

\* the value two voters share
SharedValue == "A"

\* the voters are added with the same value and term
NextShared ==
    \/ \E s \in ActiveSessions : CloseCAS(s) \/ CloseChan(s)
    \/ \E i \in Voters : AddVoter(i, SharedValue, Second)
    \/ \E i \in Voters : VoterStep(i)
    \/ Tick
    \/ Expire

SpecShared == Init /\ [][NextShared]_vars

\* ---------------------------------------------------------------------
\* Specification of the watch
\* ---------------------------------------------------------------------
WatcherStep ==
    \/ Probe
    \/ ProbeTick
    \/ ProbeClose
    \/ WatcherNext
    \/ WatcherSend
    \/ WatcherClose

AdapterStep ==
    \/ AdapterCall
    \/ AdapterClose

NextWatch ==
    \/ CloseCAS(1)
    \/ CloseChan(1)
    \/ AddWatchCallback
    \/ AddWatch
    \/ WatcherStep
    \/ AdapterStep
    \/ CtxCancel
    \/ \E v \in WrittenValues : ExternalSet(v)
    \/ ExternalDelete
    \/ Compact

\* one session with a watch callback and no voters
InitWatch ==
    /\ InitState
    /\ faults = 0
    /\ sess = [i \in Voters |-> 0]
    /\ timed = FALSE
    /\ watched = FALSE
    /\ faultCap = MaxFaults
    /\ errCap = MaxErrors

SpecWatch == InitWatch /\ [][NextWatch]_vars

\* the same session with a store whose requests and watches never fail
InitWatchHealthy ==
    /\ InitState
    /\ faults = 0
    /\ sess = [i \in Voters |-> 0]
    /\ timed = FALSE
    /\ watched = FALSE
    /\ faultCap = 0
    /\ errCap = 0

SpecWatchHealthy == InitWatchHealthy /\ [][NextWatch]_vars

\* the same session with a store whose reads succeed and whose watch fails
\* once between two values
InitWatchErrors ==
    /\ InitState
    /\ faults = 0
    /\ sess = [i \in Voters |-> 0]
    /\ timed = FALSE
    /\ watched = FALSE
    /\ faultCap = 0
    /\ errCap = 1

SpecWatchErrors == InitWatchErrors /\ [][NextWatch]_vars

\* a client's watch on a key other clients set, with a store watch that
\* may fail until backoff.Tries has passed StormTries
NextStorm ==
    \/ CloseCAS(1)
    \/ CloseChan(1)
    \/ AddWatch
    \/ WatcherStep
    \/ CtxCancel
    \/ \E v \in Values : ExternalSet(v)

InitStorm ==
    /\ InitState
    /\ faults = 0
    /\ sess = [i \in Voters |-> 0]
    /\ timed = FALSE
    /\ watched = FALSE
    /\ faultCap = 0
    /\ errCap = StormTries + 1

SpecStorm == InitStorm /\ [][NextStorm]_vars

\* ---------------------------------------------------------------------
\* Specification of the election with a watch on the voters' key
\* ---------------------------------------------------------------------
NextTasks ==
    \/ CloseCAS(1)
    \/ CloseChan(1)
    \/ \E i \in Voters : AddVoter(i, SharedValue, Second)
    \/ \E i \in Voters : VoterStep(i)
    \/ Tick
    \/ Expire
    \/ AddWatch
    \/ WatcherStep
    \/ CtxCancel
    \/ Compact

\* a voter and a watcher in one session; the store answers the voter at
\* once, one of its requests fails and its watch fails once between two
\* values
InitTasks ==
    /\ InitState
    /\ faults = 0
    /\ sess = [i \in Voters |-> IF i = 1 THEN 1 ELSE 0]
    /\ timed = TRUE
    /\ watched = TRUE
    /\ faultCap = 1
    /\ errCap = 1

SpecTasks == InitTasks /\ [][NextTasks]_vars

\* the tasks are scheduled, and a select whose cases are both ready takes
\* each of them with the same probability
FairnessWatch ==
    /\ WF_vars(WatcherStep)
    /\ WF_vars(AdapterStep)
    /\ WF_vars(CtxCancel)
    /\ WF_vars(CloseChan(1))
    /\ SF_vars(ProbeClose)
    /\ SF_vars(WatcherClose)
    /\ SF_vars(AdapterClose)

FairSpecWatch == InitWatch /\ [][NextWatch]_vars /\ FairnessWatch

\* ---------------------------------------------------------------------
\* Properties
\* ---------------------------------------------------------------------
TypeOK ==
    /\ store.ttl \in 0..Second
    /\ rev \in 0..(MaxRev + 1)

\* voter i issues a store write (api.Set) in this step
IssuesWrite(i) ==
    /\ pc[i] \in {"elect_create", "elect_renew"}
    /\ pc'[i] = "select"

\* C1: a voter never overwrites a lease whose value differs from its own:
\* the value of the key changes only after the key has been absent.
C1_NoOverwrite ==
    [][(store.present /\ store'.present) => store'.value = store.value]_vars

\* a second lease is held while a voter with another value campaigns
C1_Witness ==
    /\ store.present
    /\ rev >= 3
    /\ lastWrite.kind = "create"
    /\ \E i \in Voters : pc[i] = "select" /\ untilTick[i] > 0
                           /\ vval[i] # store.value

\* C3: once the Close call that closes closeC has returned, no voter of
\* the session issues a store write.
C3_NoWriteAfterClose ==
    [][\A i \in Voters : IssuesWrite(i) => closeCount[sess[i]] = 0]_vars

\* C5 as stated: closeC is closed at most once, and is closed as soon as
\* any Close call has returned.
C5_ClosedOnceFirstReturn ==
    \A s \in Sessions :
        /\ closeCount[s] <= 1
        /\ returned[s] > 0 => closeCount[s] = 1

\* C5 amended: closeC is closed at most once, it is closed once the call
\* that won the compare-and-swap has returned, and every call started has
\* returned (nil) or is the winner on its way to close(closeC).
C5_ClosedOnce ==
    \A s \in Sessions :
        /\ closeCount[s] <= 1
        /\ closing[s] <= 1
        /\ calls[s] = returned[s] + closing[s]
        /\ (closed[s] = 1 /\ closing[s] = 0) => closeCount[s] = 1
        /\ closed[s] = 0 => closeCount[s] = 0 /\ calls[s] = 0

\* all of several Close calls have returned
C5_Witness ==
    \E s \in Sessions :
        calls[s] >= 2 /\ returned[s] = calls[s] /\ closeCount[s] = 1

\* voter i has just created the lease with its value and TTL = term
Elected(i) ==
    /\ lastWrite = [by |-> i, kind |-> "create", ttl |-> term[i]]
    /\ store.present
    /\ store.value = vval[i]
    /\ store.ttl = term[i]

\* C9: a single voter started against an absent key eventually creates the
\* key with its value and TTL = term, unless its session is closed; the
\* store fails at most MaxFaults requests.
C9_EventuallyElected ==
    (pc[1] = "elect_get" /\ untilTick[1] = 0 /\ ~store.present)
        ~> (Elected(1) \/ closed[1] = 1)

\* the voter was elected after a failed store request
C9_Witness == Elected(1) /\ faults > 0 /\ closed[1] = 0

\* the watcher sends a value on valuesC in this step
Emits == wpc = "send" /\ wpc' = "next"

\* the adapter invokes the callback in this step
Invokes == cbpc = "call" /\ cbpc' = "recv"

\* C2: when the initial snapshot of a watcher returned a non-empty value,
\* the first value the watcher sends is that value.
C2_FirstEmitIsSnapshot ==
    (firstEmit # "none" /\ snap0.got /\ snap0.value # "")
        => firstEmit = snap0.value

\* C4: once the Close call that closes closeC has returned, no watcher
\* sends a value and no callback is invoked.
C4_NoEmissionAfterClose ==
    [][(Emits \/ Invokes) => closeCount[1] = 0]_vars

\* C6: after Close, the watcher's task and the adapter's task eventually
\* return normally.
C6_TasksReturn ==
    (closeCount[1] > 0)
        ~> (wpc \in {"none", "done"} /\ cbpc \in {"none", "plain", "done"})

\* C7: a watcher never sends the empty string.
C7_NoEmptyEmission == [][Emits => re.value # ""]_vars

Revisions == 1..(MaxRev + 1)

\* C8: a non-empty value written at revision n after AddWatch was called
\* is eventually sent, or a later revision is, unless the key changes again
\* or the session is closed.
C8_WrittenValueEmitted ==
    \A n \in Revisions :
        (/\ wpc # "none"
         /\ n > wStartRev
         /\ store.present /\ store.index = n /\ store.value # "")
            ~> (lastEmit.index >= n \/ store.index # n \/ closed[1] = 1)

\* no voter has a step to take and no expiry is due
Quiet ==
    /\ \A i \in Voters : ~Busy(i)
    /\ ~(store.present /\ store.ttl = 0)

\* voter b campaigned when the first voter returned and still does, with
\* another value, and no write was refused for the revision bound
KeepsCampaigning(b) ==
    /\ stopped.who # 0
    /\ b \in stopped.peers
    /\ pc[b] # "done"
    /\ vval[b] # vval[stopped.who]
    /\ rev < MaxRev

Holds(b) == store.present /\ store.value = vval[b]

TakeoverBound(t) == t + t \div 5

\* C10 as stated: B holds the lease within one term of A's stop.
C10_TakeoverWithinTerm ==
    \A b \in Voters :
        (KeepsCampaigning(b) /\ Quiet /\ stopped.age >= term[b]) => Holds(b)

\* C10 amended: B holds the lease within term + term/5 of A's stop.
C10_TakeoverWithinTermAndTick ==
    \A b \in Voters :
        (KeepsCampaigning(b) /\ Quiet /\ stopped.age >= TakeoverBound(term[b]))
            => Holds(b)

\* A held the lease when it stopped and B took over
C10_Witness ==
    \E b \in Voters :
        /\ KeepsCampaigning(b) /\ Quiet /\ stopped.held
        /\ stopped.age >= TakeoverBound(term[b])
        /\ Holds(b)

\* voter i wrote the lease that is expiring and campaigned ever since, with
\* its session open and no write refused for the revision bound
LeaseLapses(i) ==
    /\ store.present
    /\ ~store'.present
    /\ lastWrite.by = i
    /\ store.value = vval[i]
    /\ pc[i] = "select"
    /\ closed[sess[i]] = 0
    /\ rev < MaxRev

\* C11 as stated: a lease expires only after four iterations of its holder
\* tried to renew it.
C11_FourRenewalAttempts ==
    [][\A i \in Voters : LeaseLapses(i) => attempts[i] >= 4]_vars

\* C11 amended: with a store that answers at once, a lease expires only
\* after at least two iterations of its holder tried to renew it (issued
\* the CAS renewal or failed at the read), so the lease survives one failed
\* iteration.
C11_TwoRenewalAttempts ==
    [][\A i \in Voters : LeaseLapses(i) => attempts[i] >= 2]_vars

\* the lease expired after two failed renewal attempts of its holder
C11_Witness ==
    /\ ~store.present
    /\ lastWrite.by = 1
    /\ attempts[1] = 2
    /\ faults >= 2
    /\ pc[1] = "select"
    /\ closed[1] = 0
    /\ rev < MaxRev

\* C12: AddVoter with an empty value or a term below one second returns an
\* error and does nothing else: no task, no ticker and no store request ever
\* belong to that call; with a non-empty value and term >= 1 second it
\* returns no error and the task starts.
C12_AddVoterValidation ==
    [][/\ \A i \in Voters, v \in VoterValues, t \in Terms :
            AddVoter(i, v, t) =>
                IF v = "" \/ t < Second
                THEN pc'[i] = "rejected" /\ UNCHANGED storeVars
                ELSE pc'[i] = "elect_get" /\ vval'[i] = v /\ term'[i] = t
       /\ \A i \in Voters :
            pc[i] = "rejected" =>
                /\ pc'[i] = "rejected"
                /\ untilTick'[i] = 0
                /\ ~tickPending'[i]
                /\ lastWrite'.by # i]_vars

\* one call was rejected while the voter of another call holds the lease
C12_Witness ==
    \E i, j \in Voters :
        /\ pc[i] = "rejected"
        /\ pc[j] = "select"
        /\ store.present
        /\ lastWrite.by = j

C14_FirstCallSameValues ==
    [][(Invokes /\ fnArgs = NoCall) =>
            /\ fnArgs'.prev = fnArgs'.new
            /\ store.present
            /\ fnArgs'.new = store.value]_vars

\* voter i's read succeeded in this step
ReadsKey(i) ==
    /\ pc[i] = "elect_get"
    /\ pc'[i] # "elect_get"
    /\ faults' = faults

\* voter i's read failed in this step
ReadFails(i) ==
    /\ pc[i] = "elect_get"
    /\ pc'[i] # "elect_get"
    /\ faults' # faults

\* C15: in one iteration a voter goes on to the create-if-not-exists
\* exactly when its read reports NotFound, to the CAS renewal exactly when
\* the key holds its value with remaining TTL <= term/2, and issues no write
\* when the key holds another value, or its value with remaining TTL >
\* term/2, or when the read fails otherwise; the store is written by a
\* voter only in these two writes.
C15_ElectDecision ==
    [][\A i \in Voters :
        /\ ReadsKey(i) =>
              /\ (pc'[i] = "elect_create") <=> ~store.present
              /\ (pc'[i] = "elect_renew") <=>
                    (store.present /\ store.value = vval[i]
                        /\ 2 * store.ttl <= term[i])
              /\ (pc'[i] = "select") <=>
                    (store.present /\ (store.value # vval[i]
                        \/ 2 * store.ttl > term[i]))
        /\ ReadFails(i) => pc'[i] = "select"
        /\ (lastWrite' # lastWrite /\ lastWrite'.by = i) =>
              \/ pc[i] = "elect_create" /\ lastWrite'.kind = "create"
                    /\ ~store.present
              \/ pc[i] = "elect_renew" /\ lastWrite'.kind = "renew"
                    /\ store.present /\ store.value = vval[i]
                    /\ store.index = respIndex[i]]_vars

\* a lease was renewed while a voter with another value campaigns, after
\* a failed read
C15_Witness ==
    /\ lastWrite.kind = "renew"
    /\ store.present
    /\ faults > 0
    /\ \E j \in Voters : pc[j] = "select" /\ untilTick[j] > 0
                           /\ vval[j] # store.value

\* the store applies a renewal in this step
RenewalApplied ==
    /\ rev' = rev + 1
    /\ store'.present
    /\ lastWrite'.kind = "renew"

\* C16: with two voters campaigning with the same value and term, every
\* renewal the store applies comes when the lease's remaining TTL is at
\* most term/2 and carries the index of the lease as it is; it gives the
\* lease a new index, so no second renewal computed from the same read of
\* the lease is applied.
C16_NoDoubleWrite ==
    [][RenewalApplied =>
          /\ store.present
          /\ 2 * store.ttl <= term[lastWrite'.by]
          /\ respIndex[lastWrite'.by] = store.index
          /\ store'.index > store.index
          /\ \A j \in Voters : respIndex[j] # store'.index]_vars

\* a renewal was applied while the other voter is about to renew from a
\* read of the lease's earlier revision
C16_Witness ==
    /\ lastWrite.kind = "renew"
    /\ store.present
    /\ \E j \in Voters :
          /\ j # lastWrite.by
          /\ pc[j] = "elect_renew"
          /\ respIndex[j] < store.index
          /\ vval[j] = store.value

\* C17: a watcher's emissions are in store-revision order: the value sent
\* is the value written at the revision it was read with, and that
\* revision is not lower than the revision of the value sent before,
\* whatever errors and re-snapshots lie between the two.
C17_RevisionOrder ==
    [][Emits =>
          /\ ~re.nil
          /\ re.index \in 1..Len(hist)
          /\ hist[re.index] = re.value
          /\ re.index >= lastEmit.index]_vars

\* a value was sent from a re-snapshot after an earlier value and an error
C17_Witness ==
    /\ resetFrom = "cleared"
    /\ wpc = "next"
    /\ tries > 0
    /\ firstEmit # "none"
    /\ lastEmit.index > 1
    /\ lastEmit.value # firstEmit

\* C18: immediately after a value is sent the backoff's try counter is
\* zero, whether the value came from Next or from the re-snapshot after a
\* revision-compacted error.
C18_BackoffResetOnEmit == [][Emits => tries' = 0]_vars

\* the watcher calls resetWatch because of repeated unknown errors
StormReset == wpc = "next" /\ wpc' = "probe" /\ resetFrom' = "storm"

\* C19: the watcher forces a re-snapshot because of unknown errors exactly
\* when Next has returned more than 10 unknown errors since the last value
\* was sent; cluster errors do not count.
C19_StormAfterTenUnknown ==
    [][/\ StormReset => unknowns' > StormTries
       /\ (unknowns' > unknowns /\ unknowns' > StormTries) => StormReset]_vars

\* the re-snapshot that follows EventIndexCleared returns in this step,
\* with the session open
RecoverySnapshot ==
    /\ wpc = "probe"
    /\ resetFrom = "cleared"
    /\ wpc' \notin {"probe", "probe_wait"}
    /\ closeCount[1] = 0

\* C20: after EventIndexCleared, with the session open, the watcher reads
\* the key's current value, positions the store watch after that value's
\* revision and goes on to send that value: the value sent next is the
\* snapshot's, and the watch waits for the revisions after it.
C20_CompactionRecovery ==
    [][/\ (wpc = "next" /\ resetFrom' = "cleared" /\ resetFrom' # resetFrom)
            => wpc' = "probe"
       /\ RecoverySnapshot =>
            /\ store.present
            /\ wpc' = "send"
            /\ re' = [nil |-> FALSE, value |-> store.value, index |-> store.index]
            /\ watcher' = [set |-> TRUE, after |-> store.index]
       /\ (wpc = "send" /\ wpc' = "send") => (re' = re /\ watcher' = watcher)
       /\ Emits =>
            /\ lastEmit' = [value |-> re.value, index |-> re.index]
            /\ watcher.after = re.index
            /\ watcher' = watcher]_vars

\* the snapshot taken after EventIndexCleared was sent and is the key's
\* current value
C20_Witness ==
    /\ resetFrom = "cleared"
    /\ wpc = "next"
    /\ tries > 0
    /\ closed[1] = 0
    /\ store.present
    /\ lastEmit = [value |-> store.value, index |-> store.index]
    /\ watcher.after = store.index
    /\ firstEmit # "none"
    /\ firstEmit # lastEmit.value

\* C21: a voter's task or a watcher's task that has terminated (returned,
\* or panicked) implies that the session's closeC is closed: no outcome of
\* a store request or of the store watch ends a task of an open session.
C21_StopOnlyOnClose ==
    /\ \A i \in Voters : pc[i] = "done" => closeCount[sess[i]] > 0
    /\ wpc \in {"done", "panic"} => closeCount[1] > 0

\* the voter and the watcher are at work in the open session after a
\* failed store request, a watch error, a compaction and an expiry
C21_Witness ==
    /\ closed[1] = 0
    /\ pc[1] = "select"
    /\ untilTick[1] > 0
    /\ histStart > 1
    /\ wpc = "next"
    /\ faults > 0
    /\ tries > 0
    /\ ~store.present
    /\ rev >= 2

\* getFirstValue returns (nil, nil): its select took the closeC case
SentinelReturned == wpc = "probe_wait" /\ wpc' \notin {"probe", "probe_wait"}

\* C22: the watcher calls watcher.Next only on a store watch that has been
\* created and sends only from a response that is present; when
\* getFirstValue returns (nil, nil), during the first snapshot or during a
\* later one, the watcher returns without calling Next and without sending.
C22_NoAbsentSnapshotUse ==
    [][/\ SentinelReturned => wpc' = "done"
       /\ wpc' = "next" => watcher'.set /\ ~Crashed'
       /\ wpc' = "send" => ~re'.nil]_vars
====
